---- MODULE Spec2Model ----
(***************************************************************************)
(* Image Stand: the similarity scoring engine (services/comparison.py,     *)
(* services/image_embeddings.py), the comparison workflow                  *)
(* (graphs/image_comparison.py) and the /api/compare and /api/sensitivity  *)
(* endpoints (main.py, config.py).                                         *)
(*                                                                         *)
(* Floats are fixed-point integers in units of 1/Scale: 1.0 is Scale, a    *)
(* fraction 0.3 is 3 * Scale \div 10.  A percentage p is the integer       *)
(* p * Scale.  Python's float "/" is Div and "*" is Mul, both truncating   *)
(* to the grid; the order of the operations is the order of the source.    *)
(* An Optional[T] is a sequence: None is << >>, a value v is << v >>.      *)
(***************************************************************************)
EXTENDS Integers, Sequences, FiniteSets, TLC

(* round(score, 4): scores carry four decimals *)
Scale == 10000

(* number of grid steps between 0 and 1 for the raw scores drawn as inputs *)
RawSteps == 10

None == << >>
Some(v) == << v >>
IsNone(o) == o = << >>
Val(o) == o[1]

Max(a, b) == IF a >= b THEN a ELSE b
Min(a, b) == IF a <= b THEN a ELSE b
Mul(a, b) == (a * b) \div Scale
Div(a, b) == (a * Scale) \div b
Frac(n, d) == (n * Scale) \div d

(* float("nan"), which no arithmetic of the model produces: every comparison
   with it is false and every sum, product and quotient of it is nan again *)
NaN == -1000000000
FloatLess(a, b) == a # NaN /\ b # NaN /\ a < b

(* round(x, 2) on a percentage: two decimals of a percent *)
Round2(x) == ((2 * x + (Scale \div 100)) \div (2 * (Scale \div 100))) * (Scale \div 100)
(* round(x, 4) on a score *)
Round4(x) == ((2 * x + (Scale \div 10000)) \div (2 * (Scale \div 10000))) * (Scale \div 10000)

(***************************************************************************)
(* config.py: the accepted range of the sensitivity                        *)
(***************************************************************************)
MinSensitivity == Frac(1, 10)
MaxSensitivity == 10 * Scale
DefaultSensitivity == Scale
ValidSensitivity(s) == ~(s < MinSensitivity \/ s > MaxSensitivity)

(* config.py line 105, main.py line 403: value < 0.1 or value > 10.0 *)
sensitivity_rejected(value) ==
    FloatLess(value, MinSensitivity) \/ FloatLess(MaxSensitivity, value)

(***************************************************************************)
(* comparison.py: apply_nonlinear_scaling                                  *)
(***************************************************************************)
(* the quotient of line 55 without the clamp of line 59 *)
adjusted_min_unclamped(sensitivity, min_threshold) ==
    IF sensitivity = NaN THEN Frac(1, 2) ELSE Div(min_threshold, sensitivity)

(* lines 55, 59; min(0.5, nan) is 0.5 *)
adjusted_min(sensitivity, min_threshold) ==
    IF sensitivity = NaN
    THEN Frac(1, 2)
    ELSE Max(0, Min(Frac(1, 2), Div(min_threshold, sensitivity)))

(* the clamp of line 60 on the threshold itself, without the product of
   line 56 *)
adjusted_max_unscaled(sensitivity, max_threshold) ==
    Max(Frac(1, 2), Min(Scale, max_threshold))

(* lines 56, 60; min(1.0, nan) is 1.0 *)
adjusted_max(sensitivity, max_threshold) ==
    IF sensitivity = NaN
    THEN Scale
    ELSE Max(Frac(1, 2), Min(Scale, Mul(max_threshold, sensitivity)))

(* lines 64-69 *)
normalized_score(raw_score) ==
    IF raw_score < 0
    THEN (raw_score + Scale) \div 2
    ELSE Max(0, Min(Scale, raw_score))

(* the interpolation of lines 85-89 applied to every score, no bands *)
scaled_score_unbanded(v, lo, hi) ==
    IF hi - lo > 0
    THEN Frac(1, 10) + Mul(v - lo, Div(Frac(1, 2), hi - lo))
    ELSE Frac(1, 10)

(* lines 72-91 *)
scaled_score(v, lo, hi) ==
    IF v < lo
    THEN (IF lo > 0 THEN Mul(v, Div(Frac(1, 10), lo)) ELSE 0)
    ELSE IF v > hi
         THEN (IF Scale - hi > 0
               THEN Frac(6, 10) + Mul(v - hi, Div(Frac(4, 10), Scale - hi))
               ELSE Frac(6, 10))
         ELSE (IF hi - lo > 0
               THEN Frac(1, 10) + Mul(v - lo, Div(Frac(1, 2), hi - lo))
               ELSE Frac(1, 10))

(* the division of line 55 raises ZeroDivisionError for sensitivity 0 *)
scaling_raises(sensitivity, use_nonlinear) ==
    use_nonlinear /\ sensitivity = 0

apply_nonlinear_scaling_normalizing(raw_score, sensitivity, min_threshold, max_threshold, use_nonlinear) ==
    IF ~use_nonlinear
    THEN normalized_score(raw_score)
    ELSE (scaled_score(normalized_score(raw_score),
                       adjusted_min(sensitivity, min_threshold),
                       adjusted_max(sensitivity, max_threshold)) * 2) - Scale

apply_nonlinear_scaling_noshift(raw_score, sensitivity, min_threshold, max_threshold, use_nonlinear) ==
    IF ~use_nonlinear
    THEN raw_score
    ELSE scaled_score(normalized_score(raw_score),
                      adjusted_min(sensitivity, min_threshold),
                      adjusted_max(sensitivity, max_threshold)) * 2

(* lines 24-95, for a sensitivity that does not raise *)
apply_nonlinear_scaling(raw_score, sensitivity, min_threshold, max_threshold, use_nonlinear) ==
    IF ~use_nonlinear
    THEN raw_score
    ELSE (scaled_score(normalized_score(raw_score),
                       adjusted_min(sensitivity, min_threshold),
                       adjusted_max(sensitivity, max_threshold)) * 2) - Scale

(* (x + 1) / 2 * 100, comparison.py lines 229 and 336 *)
to_percentage(scaled) ==
    IF scaled = NaN THEN NaN ELSE ((scaled + Scale) * 100) \div 2

(***************************************************************************)
(* comparison.py: ComparisonResult and the outcome of a call               *)
(*                                                                         *)
(* A pair of images is known by what the libraries make of it:             *)
(*   ssim    the structural similarity of the decoded and resized pair,    *)
(*           in [-1, 1], or None when decoding, resizing or ssim raises;   *)
(*   emb1,   whether extract_image_embedding returns a vector (TRUE) or    *)
(*   emb2    None for the first and for the second image;                  *)
(*   cosine  what cosine_similarity returns for the two vectors.           *)
(* The outcome of a call is the ComparisonResult returned, or an exception *)
(* leaving the function (raised), and the trace of the functions entered.  *)
(***************************************************************************)
ComparisonResult(success, similarity_score, similarity_percentage, method, error) ==
    [ success |-> success,
      similarity_score |-> similarity_score,
      similarity_percentage |-> similarity_percentage,
      method |-> method,
      error |-> error ]

(* lines 150-153, 242-245, 349-352: success=False and the error, the other
   fields at their dataclass default None *)
Failure(message) == ComparisonResult(FALSE, None, None, None, Some(message))

NoResult == ComparisonResult(FALSE, None, None, None, None)

Return(result, trace) == [ raised |-> FALSE, result |-> result, trace |-> trace ]
Raise(trace) == [ raised |-> TRUE, result |-> NoResult, trace |-> trace ]
Within(prefix, outcome) == [ outcome EXCEPT !.trace = prefix \o outcome.trace ]

(* max(0.0, min(1.0, x)), lines 208, 296, 306 *)
clamp_unit(x) == Max(0, Min(Scale, x))

clamp_percentage_absent(percentage) == percentage

(* max(0.0, min(100.0, percentage)), lines 232, 339; min(100.0, nan) is 100.0 *)
clamp_percentage(percentage) ==
    IF percentage = NaN
    THEN 100 * Scale
    ELSE Max(0, Min(100 * Scale, percentage))

(***************************************************************************)
(* compare_images, lines 98-153                                            *)
(***************************************************************************)
(* the try block, lines 110-147 *)
compare_images_try(img) ==
    IF IsNone(img.ssim)
    THEN Raise(<< "compare_images" >>)
    ELSE LET score == Val(img.ssim)
             percentage == to_percentage(score)
         IN  Return(ComparisonResult(TRUE, Some(Round4(score)), Some(Round2(percentage)),
                                     Some("ssim"), None),
                    << "compare_images" >>)

compare_images_fabricated_zero(img) ==
    LET t == compare_images_try(img)
    IN  IF t.raised
        THEN Return(ComparisonResult(FALSE, Some(0), Some(0), None,
                                     Some("Image comparison failed")), t.trace)
        ELSE t

(* try and except Exception, lines 109, 149-153 *)
compare_images(img) ==
    LET t == compare_images_try(img)
    IN  IF t.raised
        THEN Return(Failure("Image comparison failed"), t.trace)
        ELSE t

(***************************************************************************)
(* compare_images_embeddings, lines 177-245                                *)
(***************************************************************************)
embeddings_fallback_relabelled(img) ==
    LET f == compare_images(img)
    IN  [ f EXCEPT !.result.method = Some("embeddings") ]

(* a fallback that would try the structural comparison again when it fails *)
embeddings_fallback_retrying(img) ==
    LET f == compare_images(img)
    IN  IF f.result.success THEN f ELSE Within(f.trace, compare_images(img))

(* line 200: return compare_images(image1_bytes, image2_bytes) *)
embeddings_fallback(img) == compare_images(img)

compare_images_embeddings_try_calibrating_fallback(img, sensitivity, cfg) ==
    LET f == embeddings_fallback(img)
    IN  IF f.result.success /\ cfg.use_nonlinear /\ sensitivity # 0
        THEN [ f EXCEPT !.result.similarity_percentage =
                   Some(Round2(clamp_percentage(to_percentage(
                       apply_nonlinear_scaling(Val(f.result.similarity_score), sensitivity,
                           cfg.min_threshold, cfg.max_threshold, TRUE))))) ]
        ELSE f

(* a comparison that would report the calibrated value as its score *)
compare_images_embeddings_try_scoring_calibrated(img, sensitivity, cfg) ==
    LET entered == << "compare_images_embeddings",
                      "extract_image_embedding", "extract_image_embedding" >>
    IN  IF ~img.emb1 \/ ~img.emb2
        THEN Within(entered, embeddings_fallback(img))
        ELSE IF scaling_raises(sensitivity, cfg.use_nonlinear)
             THEN Raise(entered)
             ELSE LET scaled_similarity ==
                          IF cfg.use_nonlinear
                          THEN apply_nonlinear_scaling(clamp_unit(img.cosine), sensitivity,
                                   cfg.min_threshold, cfg.max_threshold, TRUE)
                          ELSE (clamp_unit(img.cosine) * 2) - Scale
                      percentage == clamp_percentage(to_percentage(scaled_similarity))
                  IN  Return(ComparisonResult(TRUE, Some(Round4(percentage \div 100)),
                                              Some(Round2(percentage)),
                                              Some("embeddings"), None),
                             entered)

(* the try block, lines 194-239 *)
compare_images_embeddings_try(img, sensitivity, cfg) ==
    LET entered == << "compare_images_embeddings",
                      "extract_image_embedding", "extract_image_embedding" >>
    IN  IF ~img.emb1 \/ ~img.emb2
        THEN Within(entered, embeddings_fallback(img))
        ELSE LET similarity == clamp_unit(img.cosine)
             IN  IF scaling_raises(sensitivity, cfg.use_nonlinear)
                 THEN Raise(entered)
                 ELSE LET scaled_similarity ==
                              IF cfg.use_nonlinear
                              THEN apply_nonlinear_scaling(similarity, sensitivity,
                                       cfg.min_threshold, cfg.max_threshold, TRUE)
                              ELSE (similarity * 2) - Scale
                          percentage == clamp_percentage(to_percentage(scaled_similarity))
                      IN  Return(ComparisonResult(TRUE, Some(Round4(similarity)),
                                                  Some(Round2(percentage)),
                                                  Some("embeddings"), None),
                                 entered)

(* try and except Exception, lines 193, 241-245 *)
compare_images_embeddings(img, sensitivity, cfg) ==
    LET t == compare_images_embeddings_try(img, sensitivity, cfg)
    IN  IF t.raised
        THEN Return(Failure("Embedding comparison failed"), t.trace)
        ELSE t

(***************************************************************************)
(* compare_images_hybrid, lines 248-352                                    *)
(***************************************************************************)
normalized_weights_as_given(embedding_weight, ssim_weight) ==
    LET total_weight == embedding_weight + ssim_weight
    IN  IF total_weight > 0
        THEN << embedding_weight, ssim_weight >>
        ELSE << Frac(7, 10), Frac(3, 10) >>

(* lines 270-276 *)
normalized_weights(embedding_weight, ssim_weight) ==
    LET total_weight == embedding_weight + ssim_weight
    IN  IF total_weight > 0
        THEN << Div(embedding_weight, total_weight), Div(ssim_weight, total_weight) >>
        ELSE << Frac(7, 10), Frac(3, 10) >>

RECURSIVE int_power(_, _)
int_power(x, k) == IF k = 0 THEN Scale ELSE Mul(x, int_power(x, k - 1))

(* combined_score ** (1.0 / sensitivity), line 328, for a sensitivity whose
   reciprocal is an integer (every member of Sensitivities below 2.0 but 0);
   x ** nan is nan, but 1.0 ** nan is 1.0 *)
power_reciprocal(x, sensitivity) ==
    IF sensitivity = NaN
    THEN (IF x = Scale THEN Scale ELSE NaN)
    ELSE IF sensitivity > 0
    THEN int_power(x, Scale \div sensitivity)
    ELSE Div(Scale, int_power(x, Scale \div (-sensitivity)))

(* 1.0 / sensitivity of line 328 raises ZeroDivisionError; the line is
   reached when sensitivity != 1.0, combined_score > 0, sensitivity < 2.0 *)
legacy_raises(combined_score, sensitivity) ==
    sensitivity # Scale /\ combined_score > 0 /\ sensitivity = 0

(* lines 324-330 *)
legacy_adjusted_score(combined_score, sensitivity) ==
    IF sensitivity # Scale /\ combined_score > 0
    THEN IF sensitivity # NaN /\ sensitivity >= 2 * Scale
         THEN Div(combined_score, sensitivity)
         ELSE power_reciprocal(combined_score, sensitivity)
    ELSE combined_score

(* (adjusted_score * 2) - 1, line 333 *)
to_signed(adjusted_score) ==
    IF adjusted_score = NaN THEN NaN ELSE (adjusted_score * 2) - Scale

hybrid_ssim_failed_gives_up(img, sensitivity, cfg) == compare_images(img)

(* line 282: return compare_images_embeddings(image1_bytes, image2_bytes, sensitivity) *)
hybrid_ssim_failed(img, sensitivity, cfg) ==
    compare_images_embeddings(img, sensitivity, cfg)

(* lines 291-292 *)
hybrid_embeddings_missing(ssim_result) ==
    [ ssim_result EXCEPT !.method = Some("ssim") ]

(* the try block, lines 269-346 *)
compare_images_hybrid_try(img, embedding_weight, ssim_weight, sensitivity, cfg) ==
    LET w == normalized_weights(embedding_weight, ssim_weight)
        ssim_result == compare_images(img)
        entered == << "compare_images_hybrid" >> \o ssim_result.trace
        extracted == entered \o << "extract_image_embedding", "extract_image_embedding" >>
    IN  IF ssim_result.raised
        THEN Raise(entered)
        ELSE IF ~ssim_result.result.success
        THEN Within(entered, hybrid_ssim_failed(img, sensitivity, cfg))
        ELSE IF ~img.emb1 \/ ~img.emb2
        THEN Return(hybrid_embeddings_missing(ssim_result.result), extracted)
        ELSE
        LET emb_similarity == clamp_unit(img.cosine)
            ssim_score_normalized ==
                (Val(ssim_result.result.similarity_score) + Scale) \div 2
            combined_score ==
                clamp_unit(Mul(ssim_score_normalized, w[2]) + Mul(emb_similarity, w[1]))
        IN  IF \/ scaling_raises(sensitivity, cfg.use_nonlinear)
               \/ (~cfg.use_nonlinear /\ legacy_raises(combined_score, sensitivity))
            THEN Raise(extracted)
            ELSE LET scaled_score_ ==
                         IF cfg.use_nonlinear
                         THEN apply_nonlinear_scaling(combined_score, sensitivity,
                                  cfg.min_threshold, cfg.max_threshold, TRUE)
                         ELSE to_signed(legacy_adjusted_score(combined_score, sensitivity))
                     percentage == clamp_percentage(to_percentage(scaled_score_))
                 IN  Return(ComparisonResult(TRUE, Some(Round4(combined_score)),
                                             Some(Round2(percentage)),
                                             Some("hybrid"), None),
                            extracted)

compare_images_hybrid_unguarded(img, embedding_weight, ssim_weight, sensitivity, cfg) ==
    compare_images_hybrid_try(img, embedding_weight, ssim_weight, sensitivity, cfg)

(* try and except Exception, lines 268, 348-352 *)
compare_images_hybrid(img, embedding_weight, ssim_weight, sensitivity, cfg) ==
    LET t == compare_images_hybrid_try(img, embedding_weight, ssim_weight, sensitivity, cfg)
    IN  IF t.raised
        THEN Return(Failure("Hybrid comparison failed"), t.trace)
        ELSE t

(***************************************************************************)
(* Inputs                                                                  *)
(***************************************************************************)
RawScores == { (k * Scale) \div RawSteps : k \in (-RawSteps)..RawSteps }

Sensitivities ==
    { -Scale, 0, Frac(1, 20), Frac(1, 10), Frac(1, 2), Scale,
      2 * Scale, 5 * Scale, 10 * Scale, 15 * Scale, NaN }

ThresholdPairs ==
    { << Frac(3, 10), Frac(7, 10) >>, << 0, Scale >>, << Frac(8, 10), Frac(2, 10) >> }

DefaultThresholds == << Frac(3, 10), Frac(7, 10) >>

(* number of grid steps between 0 and 1 for the ssim and cosine values of the
   image pairs drawn as inputs *)
PairSteps == 2

PairScores == { (k * Scale) \div PairSteps : k \in (-PairSteps)..PairSteps }

ImagePairs ==
    [ ssim : { None } \cup { Some(x) : x \in PairScores },
      emb1 : BOOLEAN, emb2 : BOOLEAN, cosine : PairScores ]

WeightPairs ==
    { << Frac(7, 10), Frac(3, 10) >>, << Scale, 0 >>, << 0, 0 >>, << 2 * Scale, -Scale >>,
      << Frac(15, 10), Frac(35, 10) >>, << -Scale, Frac(1, 2) >> }

DefaultWeights == << Frac(7, 10), Frac(3, 10) >>

(* config.py lines 66-83, 109-130: the defaults of the environment *)
DefaultSettings ==
    [ similarity_model |-> "hybrid",
      similarity_embedding_weight |-> DefaultWeights[1],
      similarity_ssim_weight |-> DefaultWeights[2],
      use_nonlinear |-> TRUE,
      min_threshold |-> DefaultThresholds[1],
      max_threshold |-> DefaultThresholds[2] ]

(* the settings a process may run under: the non-linear flag and the
   thresholds vary for the direct calls, the default method and the flag for
   the requests *)
Settings ==
    { [ DefaultSettings EXCEPT !.use_nonlinear = n,
                               !.min_threshold = t[1], !.max_threshold = t[2] ] :
        n \in BOOLEAN, t \in ThresholdPairs }

ServerSettings ==
    { [ DefaultSettings EXCEPT !.use_nonlinear = n, !.similarity_model = m ] :
        n \in BOOLEAN, m \in { "ssim", "embeddings", "hybrid" } }

(* config.py lines 98-100: the runtime value if set, else the environment's *)
similarity_sensitivity(runtime) ==
    IF ~IsNone(runtime) THEN Val(runtime) ELSE DefaultSensitivity

CallArgs ==
    { [ fn |-> "compare_images", img |-> i,
        weights |-> DefaultWeights, sensitivity |-> DefaultSensitivity ] :
        i \in ImagePairs }
    \cup
    { [ fn |-> "compare_images_embeddings", img |-> i,
        weights |-> DefaultWeights, sensitivity |-> s ] :
        i \in ImagePairs, s \in Sensitivities }
    \cup
    { [ fn |-> "compare_images_hybrid", img |-> i, weights |-> w, sensitivity |-> s ] :
        i \in ImagePairs, w \in WeightPairs, s \in Sensitivities }


(***************************************************************************)
(* State                                                                   *)
(***************************************************************************)
(* a caller of apply_nonlinear_scaling: its position, the arguments of the
   call, the value returned and the previous call with its value *)
VARIABLES scalePc, scaleArgs, scaleOut, scalePrev

(* config.py, the settings read from the environment: similarity_use_nonlinear
   and the two thresholds *)
VARIABLE settings

(* a caller of one of the three comparison entry points: its position, the
   arguments of the call and its outcome *)
VARIABLES callPc, callArgs, callOut

(* image_embeddings.py: the module constant CLIP_AVAILABLE, the module global
   _embedder, the class attribute ImageEmbedder._instance and, per instance
   created, whether its _model and its _device are set *)
VARIABLES CLIP_AVAILABLE, _embedder, _instance, _model, _device

(* the worker threads of the executor inside extract_image_embedding: the
   position of each, its locals self and embedder, what it is loading for,
   what its last call returned; the calls started and the loads completed *)
VARIABLES tpc, self, embedder, loadingFor, returned, failure, calls, loadsCompleted

(* config.py: Settings._runtime_sensitivity; the last answer of
   POST /api/sensitivity *)
VARIABLES _runtime_sensitivity, sensitivityResponse

(* POST /api/compare: the position of the request in flight, the request, the
   state of the workflow, the comparison handed to the executor, the
   comparators invoked so far for the request, and the response *)
VARIABLES hpc, request, state, running, invoked, response

(* the comparisons still on the executor whose request stopped waiting for
   them at the deadline *)
VARIABLE abandoned

(* compare_images, lines 121-135: the position inside the function, the
   sizes of the two images, and the locals target_size and win_size *)
VARIABLES wpc, sizes, target_size, win_size

(* KieClient.generate_image, kie_client.py lines 177-263: the position
   inside the call, its arguments, the locals task_id, elapsed and result,
   and the number of calls of query_task made so far *)
VARIABLES kpc, kargs, task_id, elapsed, generation, queries

scaleVars == << scalePc, scaleArgs, scaleOut, scalePrev >>
callVars == << callPc, callArgs, callOut >>
httpVars == << _runtime_sensitivity, sensitivityResponse,
               hpc, request, state, running, invoked, response, abandoned >>
windowVars == << wpc, sizes, target_size, win_size >>
kieVars == << kpc, kargs, task_id, elapsed, generation, queries >>
loadVars == << CLIP_AVAILABLE, _embedder, _instance, _model, _device,
               tpc, self, embedder, loadingFor, returned, failure, calls, loadsCompleted >>

vars == << scalePc, scaleArgs, scaleOut, scalePrev, settings, callPc, callArgs, callOut,
           CLIP_AVAILABLE, _embedder, _instance, _model, _device,
           tpc, self, embedder, loadingFor, returned, failure, calls, loadsCompleted,
           _runtime_sensitivity, sensitivityResponse,
           hpc, request, state, running, invoked, response, abandoned,
           wpc, sizes, target_size, win_size,
           kpc, kargs, task_id, elapsed, generation, queries >>

notScaleVars == << settings, callVars, loadVars, httpVars, windowVars, kieVars >>
notCallVars == << scaleVars, loadVars, httpVars, windowVars, kieVars >>
notLoadVars == << settings, scaleVars, callVars, httpVars, windowVars, kieVars >>
notHttpVars == << settings, scaleVars, callVars, loadVars, windowVars, kieVars >>
notWindowVars == << settings, scaleVars, callVars, loadVars, httpVars, kieVars >>
notKieVars == << settings, scaleVars, callVars, loadVars, httpVars, windowVars >>

(* main.py line 32: ThreadPoolExecutor(max_workers=2) *)
MaxWorkers == 2
Threads == 1..MaxWorkers
Instances == 1..MaxWorkers

(* calls of extract_image_embedding started in one behaviour *)
MaxCalls == 3

ScaleArgs ==
    [ raw_score : RawScores, sensitivity : Sensitivities,
      thresholds : ThresholdPairs, use_nonlinear : BOOLEAN ]

ScaleIdle ==
    /\ scalePc = "off"
    /\ scaleArgs = None
    /\ scaleOut = None
    /\ scalePrev = None

CallIdle ==
    /\ callPc = "off"
    /\ callArgs = None
    /\ callOut = None

HttpIdle ==
    /\ _runtime_sensitivity = None
    /\ sensitivityResponse = None
    /\ hpc = "off"
    /\ request = None
    /\ state = None
    /\ running = None
    /\ invoked = << >>
    /\ response = None
    /\ abandoned = 0

WindowIdle ==
    /\ wpc = "off"
    /\ sizes = None
    /\ target_size = None
    /\ win_size = None

KieIdle ==
    /\ kpc = "off"
    /\ kargs = None
    /\ task_id = None
    /\ elapsed = 0
    /\ generation = None
    /\ queries = 0

LoadIdle ==
    /\ CLIP_AVAILABLE = FALSE
    /\ _embedder = None
    /\ _instance = None
    /\ _model = [ o \in Instances |-> FALSE ]
    /\ _device = [ o \in Instances |-> FALSE ]
    /\ tpc = [ t \in Threads |-> "off" ]
    /\ self = [ t \in Threads |-> None ]
    /\ embedder = [ t \in Threads |-> None ]
    /\ loadingFor = [ t \in Threads |-> "" ]
    /\ returned = [ t \in Threads |-> "" ]
    /\ failure = [ t \in Threads |-> "" ]
    /\ calls = 0
    /\ loadsCompleted = 0

(***************************************************************************)
(* SpecScale: calls of apply_nonlinear_scaling.  A call returns a float    *)
(* or raises; the next call keeps the arguments but for the raw score      *)
(* (another pair of images) or but for the sensitivity (the rigour knob).  *)
(***************************************************************************)
InitScale ==
    /\ scalePc = "call"
    /\ scaleArgs \in { Some(a) : a \in ScaleArgs }
    /\ scaleOut = None
    /\ scalePrev = None
    /\ settings = DefaultSettings
    /\ CallIdle
    /\ LoadIdle
    /\ HttpIdle
    /\ WindowIdle
    /\ KieIdle

ApplyScaling ==
    /\ scalePc = "call"
    /\ LET a == Val(scaleArgs) IN
         IF scaling_raises(a.sensitivity, a.use_nonlinear)
         THEN /\ scalePc' = "raised"
              /\ scaleOut' = None
         ELSE /\ scalePc' = "returned"
              /\ scaleOut' = Some(apply_nonlinear_scaling(a.raw_score, a.sensitivity,
                                      a.thresholds[1], a.thresholds[2], a.use_nonlinear))
    /\ UNCHANGED << scaleArgs, scalePrev, notScaleVars >>

NextRawScore ==
    /\ scalePc = "returned"
    /\ \E r \in RawScores :
         scaleArgs' = Some([Val(scaleArgs) EXCEPT !.raw_score = r])
    /\ scalePrev' = Some([args |-> Val(scaleArgs), out |-> Val(scaleOut)])
    /\ scalePc' = "call"
    /\ scaleOut' = None
    /\ UNCHANGED notScaleVars

NextSensitivity ==
    /\ scalePc = "returned"
    /\ \E s \in Sensitivities :
         scaleArgs' = Some([Val(scaleArgs) EXCEPT !.sensitivity = s])
    /\ scalePrev' = Some([args |-> Val(scaleArgs), out |-> Val(scaleOut)])
    /\ scalePc' = "call"
    /\ scaleOut' = None
    /\ UNCHANGED notScaleVars

NextScale ==
    \/ ApplyScaling
    \/ NextRawScore
    \/ NextSensitivity

SpecScale == InitScale /\ [][NextScale]_vars

(***************************************************************************)
(* Claims about apply_nonlinear_scaling, under SpecScale                   *)
(***************************************************************************)
ScaleReturned == scalePc = "returned"
ScaleCompared == scalePc = "returned" /\ ~IsNone(scalePrev)

(* C3: for a sensitivity in [0.1, 10.0] and fixed thresholds, a call with a
   raw score r2 >= r1 returns at least what the call with r1 returned, also
   when r1 < 0 <= r2. *)
C3_MonotoneInRawScore ==
    ScaleCompared =>
        LET a == Val(scaleArgs)
            p == Val(scalePrev)
        IN  ( /\ ValidSensitivity(a.sensitivity)
              /\ p.args.sensitivity = a.sensitivity
              /\ p.args.thresholds = a.thresholds
              /\ p.args.raw_score <= a.raw_score )
            => p.out <= Val(scaleOut)

SweepSensitivities == { Frac(1, 2), Scale, 2 * Scale, 5 * Scale }

(* C4: with the thresholds 0.3/0.7, non-linear scaling on and the raw score
   fixed, a call with a higher sensitivity in [0.1, 10.0] never returns a
   higher percentage, and for the mid-range raw score 0.5 the percentage
   strictly decreases along the sweep 0.5, 1.0, 2.0, 5.0. *)
C4_PercentageFallsWithSensitivity ==
    ScaleCompared =>
        LET a == Val(scaleArgs)
            p == Val(scalePrev)
            now == to_percentage(Val(scaleOut))
            before == to_percentage(p.out)
        IN  ( /\ a.use_nonlinear
              /\ a.thresholds = DefaultThresholds
              /\ p.args.raw_score = a.raw_score
              /\ ValidSensitivity(a.sensitivity)
              /\ ValidSensitivity(p.args.sensitivity)
              /\ p.args.sensitivity < a.sensitivity )
            => /\ now <= before
               /\ ( /\ a.raw_score = Frac(1, 2)
                    /\ a.sensitivity \in SweepSensitivities
                    /\ p.args.sensitivity \in SweepSensitivities ) => now < before

(* C10: for a raw score in [-1, 1], a sensitivity in [0.1, 10.0], any
   threshold pair and either value of use_nonlinear, the value returned by
   apply_nonlinear_scaling lies in [-1, 1]. *)
C10_ScaledInUnitRange ==
    ( /\ ScaleReturned
      /\ ValidSensitivity(Val(scaleArgs).sensitivity) )
    => /\ Val(scaleOut) >= -Scale
       /\ Val(scaleOut) <= Scale

(* the high band is entered and its top, 1.0, is returned *)
C10_Witness ==
    /\ ScaleReturned
    /\ ValidSensitivity(Val(scaleArgs).sensitivity)
    /\ Val(scaleArgs).use_nonlinear
    /\ normalized_score(Val(scaleArgs).raw_score)
         > adjusted_max(Val(scaleArgs).sensitivity, Val(scaleArgs).thresholds[2])
    /\ Val(scaleOut) = Scale

(* C11: with use_nonlinear false a call of apply_nonlinear_scaling never
   raises and returns the raw score it was given, for every raw score,
   sensitivity (0 and out-of-range ones included) and threshold pair. *)
C11_PassThroughWhenDisabled ==
    ( /\ scalePc \in { "returned", "raised" }
      /\ ~Val(scaleArgs).use_nonlinear )
    => /\ scalePc = "returned"
       /\ Val(scaleOut) = Val(scaleArgs).raw_score

(* a negative raw score passes through with the sensitivity 0, the one that
   raises when scaling is enabled *)
C11_Witness ==
    /\ ScaleReturned
    /\ ~Val(scaleArgs).use_nonlinear
    /\ Val(scaleArgs).sensitivity = 0
    /\ Val(scaleArgs).raw_score < 0
    /\ Val(scaleOut) = Val(scaleArgs).raw_score

Clamp(x, lo, hi) == IF x < lo THEN lo ELSE IF x > hi THEN hi ELSE x

PositiveSensitivity(sens) == sens # NaN /\ sens > 0

CalibratedCall ==
    /\ ScaleReturned
    /\ Val(scaleArgs).use_nonlinear
    /\ PositiveSensitivity(Val(scaleArgs).sensitivity)

(* C24: in every calibrated call with a sensitivity above 0, whatever the
   threshold pair, the adjusted thresholds are the clamped quotient and
   product, adjMin = clamp(min / s, 0, 0.5) and adjMax = clamp(max * s, 0.5, 1),
   and 0 <= adjMin <= 0.5 <= adjMax <= 1. *)
C24_AdjustedThresholdsClamped ==
    CalibratedCall =>
        LET a == Val(scaleArgs)
            lo == adjusted_min(a.sensitivity, a.thresholds[1])
            hi == adjusted_max(a.sensitivity, a.thresholds[2])
        IN  /\ lo = Clamp(Div(a.thresholds[1], a.sensitivity), 0, Frac(1, 2))
            /\ hi = Clamp(Mul(a.thresholds[2], a.sensitivity), Frac(1, 2), Scale)
            /\ 0 <= lo /\ lo <= Frac(1, 2)
            /\ Frac(1, 2) <= hi /\ hi <= Scale

(* sensitivity 0.1 with the default thresholds: 0.3 / 0.1 = 3 is clamped down
   to 0.5 and 0.7 * 0.1 = 0.07 is clamped up to 0.5 *)
C24_Witness ==
    /\ CalibratedCall
    /\ Val(scaleArgs).sensitivity = Frac(1, 10)
    /\ Val(scaleArgs).thresholds = DefaultThresholds
    /\ adjusted_min(Frac(1, 10), DefaultThresholds[1]) = Frac(1, 2)
    /\ adjusted_max(Frac(1, 10), DefaultThresholds[2]) = Frac(1, 2)

NonlinearCall == ScaleReturned /\ Val(scaleArgs).use_nonlinear

(* the value of line 95 before its conversion to -1..1 *)
ScaledOut == (Val(scaleOut) + Scale) \div 2

BandLow == adjusted_min(Val(scaleArgs).sensitivity, Val(scaleArgs).thresholds[1])
BandHigh == adjusted_max(Val(scaleArgs).sensitivity, Val(scaleArgs).thresholds[2])
Normalized == normalized_score(Val(scaleArgs).raw_score)

(* C25: in every call with non-linear scaling that returns, the normalized
   value v is in [0, 1] and the scaled value is in [0, 0.1] when v < adjMin,
   in [0.1, 0.6] when adjMin <= v <= adjMax and in [0.6, 1.0] when v > adjMax;
   where the band has no width (adjMin = 0, adjMax = 1, adjMax = adjMin) the
   value is 0, 0.6 and 0.1, and the call does not divide by zero. *)
C25_ScaledBands ==
    NonlinearCall =>
        /\ Val(scaleOut) = 2 * ScaledOut - Scale
        /\ 0 <= Normalized /\ Normalized <= Scale
        /\ Normalized < BandLow =>
              /\ 0 <= ScaledOut /\ ScaledOut <= Frac(1, 10)
              /\ BandLow = 0 => ScaledOut = 0
        /\ Normalized > BandHigh =>
              /\ Frac(6, 10) <= ScaledOut /\ ScaledOut <= Scale
              /\ BandHigh = Scale => ScaledOut = Frac(6, 10)
        /\ (Normalized >= BandLow /\ Normalized <= BandHigh) =>
              /\ Frac(1, 10) <= ScaledOut /\ ScaledOut <= Frac(6, 10)
              /\ BandHigh = BandLow => ScaledOut = Frac(1, 10)

(* sensitivity 0.1 puts both thresholds at 0.5; the raw score 0.5 sits on
   them and comes out as 0.1, that is -0.8 on the -1..1 scale *)
C25_Witness ==
    /\ NonlinearCall
    /\ Val(scaleArgs).sensitivity = Frac(1, 10)
    /\ Val(scaleArgs).thresholds = DefaultThresholds
    /\ Val(scaleArgs).raw_score = Frac(1, 2)
    /\ BandLow = BandHigh
    /\ Val(scaleOut) = -Frac(8, 10)

(***************************************************************************)
(* SpecWindow: compare_images on two decoded images, from the choice of    *)
(* the common size to the window of the structural similarity.             *)
(***************************************************************************)
(* the largest width and height of the images drawn as inputs *)
MaxDim == 9

ImageSizes == [ width : 1..MaxDim, height : 1..MaxDim ]

InitWindow ==
    /\ wpc = "decoded"
    /\ sizes \in { Some(<< a, b >>) : a \in ImageSizes, b \in ImageSizes }
    /\ target_size = None
    /\ win_size = None
    /\ settings = DefaultSettings
    /\ ScaleIdle
    /\ CallIdle
    /\ LoadIdle
    /\ HttpIdle
    /\ KieIdle

(* lines 121-124 *)
common_size(img1, img2) ==
    << Min(img1.width, img2.width), Min(img1.height, img2.height) >>

ChooseTargetSize ==
    /\ wpc = "decoded"
    /\ target_size' = Some(common_size(Val(sizes)[1], Val(sizes)[2]))
    /\ wpc' = "resized"
    /\ UNCHANGED << sizes, win_size, notWindowVars >>

window_size_unadjusted(min_dim) == Min(7, min_dim)

(* line 135 *)
window_size(min_dim) ==
    Min(7, IF min_dim % 2 = 1 THEN min_dim ELSE min_dim - 1)

(* lines 134-135 *)
ChooseWindow ==
    /\ wpc = "resized"
    /\ LET min_dim == Min(Val(target_size)[1], Val(target_size)[2])
       IN  win_size' = Some(window_size(min_dim))
    /\ wpc' = "window"
    /\ UNCHANGED << sizes, target_size, notWindowVars >>

NextWindow ==
    \/ ChooseTargetSize
    \/ ChooseWindow

SpecWindow == InitWindow /\ [][NextWindow]_vars

(* the smaller dimension of the common size *)
SmallerDimension == Min(Val(target_size)[1], Val(target_size)[2])

(* the largest odd number that is at most m, for m >= 1 *)
LargestOddUpTo(m) ==
    CHOOSE k \in 1..m : k % 2 = 1 /\ \A j \in 1..m : j % 2 = 1 => j <= k

(* C21: when the smaller dimension m of the common size is at least 1, the
   window size is odd, at least 1, at most 7 and at most m, and it is the
   smaller of 7 and the largest odd number up to m. *)
C21_WindowSizeOddAndBounded ==
    ( wpc = "window" /\ SmallerDimension >= 1 ) =>
        LET w == Val(win_size)
            m == SmallerDimension
        IN  /\ w % 2 = 1
            /\ w >= 1
            /\ w <= 7
            /\ w <= m
            /\ w = Min(7, LargestOddUpTo(m))

(* the common size of a 4 x 9 and a 9 x 6 image is 4 x 6: the smaller
   dimension is even and the window is 3 *)
C21_Witness ==
    /\ wpc = "window"
    /\ Val(sizes)[1] = [ width |-> 4, height |-> 9 ]
    /\ Val(sizes)[2] = [ width |-> 9, height |-> 6 ]
    /\ Val(target_size) = << 4, 6 >>
    /\ Val(win_size) = 3

(***************************************************************************)
(* SpecLoad: the worker threads call extract_image_embedding.  A step is   *)
(* what a thread does between two points where another thread may run:     *)
(* the reads and writes of _embedder, _instance, _model and _device are    *)
(* separate steps, and the load of the encoder (from_pretrained, blocking  *)
(* I/O outside the interpreter lock) is a step that succeeds or fails.     *)
(***************************************************************************)
InitLoad ==
    /\ CLIP_AVAILABLE \in BOOLEAN
    /\ _embedder = None
    /\ _instance = None
    /\ _model = [ o \in Instances |-> FALSE ]
    /\ _device = [ o \in Instances |-> FALSE ]
    /\ tpc = [ t \in Threads |-> "idle" ]
    /\ self = [ t \in Threads |-> None ]
    /\ embedder = [ t \in Threads |-> None ]
    /\ loadingFor = [ t \in Threads |-> "" ]
    /\ returned = [ t \in Threads |-> "" ]
    /\ failure = [ t \in Threads |-> "" ]
    /\ calls = 0
    /\ loadsCompleted = 0
    /\ settings = DefaultSettings
    /\ ScaleIdle
    /\ CallIdle
    /\ HttpIdle
    /\ WindowIdle
    /\ KieIdle

Goto(t, label) == tpc' = [ tpc EXCEPT ![t] = label ]

InstancesCreated == Cardinality({ o \in Instances : \E t \in Threads : self[t] = Some(o) }
                                \cup { o \in Instances : _instance = Some(o) })

(* extract_image_embedding is entered, line 134 *)
ExtractImageEmbedding(t) ==
    /\ tpc[t] = "idle"
    /\ calls < MaxCalls
    /\ calls' = calls + 1
    /\ Goto(t, "get_embedder")
    /\ self' = [ self EXCEPT ![t] = None ]
    /\ embedder' = [ embedder EXCEPT ![t] = None ]
    /\ returned' = [ returned EXCEPT ![t] = "" ]
    /\ failure' = [ failure EXCEPT ![t] = "" ]
    /\ UNCHANGED << CLIP_AVAILABLE, _embedder, _instance, _model, _device,
                    loadingFor, loadsCompleted, notLoadVars >>

(* get_embedder, line 115: if _embedder is None and CLIP_AVAILABLE *)
GetEmbedderTest(t) ==
    /\ tpc[t] = "get_embedder"
    /\ IF IsNone(_embedder) /\ CLIP_AVAILABLE
       THEN Goto(t, "new")
       ELSE Goto(t, "return_embedder")
    /\ failure' = [ failure EXCEPT ![t] = IF CLIP_AVAILABLE THEN @ ELSE "dependency" ]
    /\ UNCHANGED << CLIP_AVAILABLE, _embedder, _instance, _model, _device,
                    self, embedder, loadingFor, returned, calls, loadsCompleted,
                    notLoadVars >>

(* ImageEmbedder.__new__, line 26: if cls._instance is None *)
NewTest(t) ==
    /\ tpc[t] = "new"
    /\ IF IsNone(_instance)
       THEN Goto(t, "new_create")
       ELSE Goto(t, "new_return")
    /\ UNCHANGED << CLIP_AVAILABLE, failure, _embedder, _instance, _model, _device,
                    self, embedder, loadingFor, returned, calls, loadsCompleted,
                    notLoadVars >>

(* line 27: cls._instance = super().__new__(cls) *)
NewCreate(t) ==
    /\ tpc[t] = "new_create"
    /\ _instance' = Some(InstancesCreated + 1)
    /\ Goto(t, "new_return")
    /\ UNCHANGED << CLIP_AVAILABLE, failure, _embedder, _model, _device,
                    self, embedder, loadingFor, returned, calls, loadsCompleted,
                    notLoadVars >>

(* line 28: return cls._instance; then __init__, line 32:
   if self._model is None and CLIP_AVAILABLE *)
NewReturn(t) ==
    /\ tpc[t] = "new_return"
    /\ self' = [ self EXCEPT ![t] = _instance ]
    /\ Goto(t, "init")
    /\ UNCHANGED << CLIP_AVAILABLE, failure, _embedder, _instance, _model, _device,
                    embedder, loadingFor, returned, calls, loadsCompleted, notLoadVars >>

InitTest(t) ==
    /\ tpc[t] = "init"
    /\ IF ~_model[Val(self[t])] /\ CLIP_AVAILABLE
       THEN /\ Goto(t, "load_model")
            /\ loadingFor' = [ loadingFor EXCEPT ![t] = "init" ]
       ELSE /\ Goto(t, "assign")
            /\ UNCHANGED loadingFor
    /\ UNCHANGED << CLIP_AVAILABLE, failure, _embedder, _instance, _model, _device,
                    self, embedder, returned, calls, loadsCompleted, notLoadVars >>

(* _load_model, lines 46-47: from_pretrained succeeds, self._model is set *)
LoadModelSucceeds(t) ==
    /\ tpc[t] = "load_model"
    /\ _model' = [ _model EXCEPT ![Val(self[t])] = TRUE ]
    /\ Goto(t, "load_device")
    /\ UNCHANGED << CLIP_AVAILABLE, failure, _embedder, _instance, _device,
                    self, embedder, loadingFor, returned, calls, loadsCompleted,
                    notLoadVars >>

(* extract_image_embedding, lines 140-142: except Exception: the error is
   printed and None is returned *)
extract_image_embedding_uncaught == "raised"

extract_image_embedding_except == "None"

(* _load_model, lines 55-56: RuntimeError leaves _load_model.  Called from
   __init__ (line 33) it leaves ImageEmbedder() and get_embedder (lines
   118-120) returns None; called from extract_embedding (line 72, outside
   its try) it is caught by extract_image_embedding *)
LoadModelRaises(t) ==
    /\ IF loadingFor[t] = "init"
       THEN /\ embedder' = [ embedder EXCEPT ![t] = None ]
            /\ Goto(t, "have_embedder")
            /\ UNCHANGED returned
       ELSE /\ returned' = [ returned EXCEPT ![t] = extract_image_embedding_except ]
            /\ Goto(t, "idle")
            /\ UNCHANGED embedder
    /\ failure' = [ failure EXCEPT ![t] = "load" ]
    /\ loadingFor' = [ loadingFor EXCEPT ![t] = "" ]
    /\ UNCHANGED << CLIP_AVAILABLE, _embedder, _instance, _model, _device,
                    self, calls, loadsCompleted, notLoadVars >>

(* _load_model, lines 46-47: from_pretrained raises, self._model stays None *)
LoadModelFails(t) ==
    /\ tpc[t] = "load_model"
    /\ LoadModelRaises(t)

(* _load_model, lines 48-53: eval() or to(device) raises after self._model
   was set; self._device stays unset *)
LoadModelDeviceFails(t) ==
    /\ tpc[t] = "load_device"
    /\ LoadModelRaises(t)

(* _load_model, lines 48-54: eval(), to(device), self._device is set *)
LoadModelDevice(t) ==
    /\ tpc[t] = "load_device"
    /\ _device' = [ _device EXCEPT ![Val(self[t])] = TRUE ]
    /\ loadsCompleted' = loadsCompleted + 1
    /\ IF loadingFor[t] = "init" THEN Goto(t, "assign") ELSE Goto(t, "inference")
    /\ loadingFor' = [ loadingFor EXCEPT ![t] = "" ]
    /\ UNCHANGED << CLIP_AVAILABLE, failure, _embedder, _instance, _model,
                    self, embedder, returned, calls, notLoadVars >>

(* get_embedder, line 117: _embedder = ImageEmbedder() *)
AssignEmbedder(t) ==
    /\ tpc[t] = "assign"
    /\ _embedder' = self[t]
    /\ Goto(t, "return_embedder")
    /\ UNCHANGED << CLIP_AVAILABLE, failure, _instance, _model, _device,
                    self, embedder, loadingFor, returned, calls, loadsCompleted,
                    notLoadVars >>

(* get_embedder, line 121: return _embedder *)
ReturnEmbedder(t) ==
    /\ tpc[t] = "return_embedder"
    /\ embedder' = [ embedder EXCEPT ![t] = _embedder ]
    /\ Goto(t, "have_embedder")
    /\ UNCHANGED << CLIP_AVAILABLE, failure, _embedder, _instance, _model, _device,
                    self, loadingFor, returned, calls, loadsCompleted, notLoadVars >>

(* extract_image_embedding, lines 135-136, then extract_embedding,
   lines 68-72: if self._model is None: self._load_model() *)
HaveEmbedder(t) ==
    /\ tpc[t] = "have_embedder"
    /\ IF IsNone(embedder[t])
       THEN /\ returned' = [ returned EXCEPT ![t] = "None" ]
            /\ Goto(t, "idle")
            /\ UNCHANGED << self, loadingFor >>
       ELSE /\ self' = [ self EXCEPT ![t] = embedder[t] ]
            /\ IF ~_model[Val(embedder[t])]
               THEN /\ Goto(t, "load_model")
                    /\ loadingFor' = [ loadingFor EXCEPT ![t] = "extract" ]
               ELSE /\ Goto(t, "inference")
                    /\ UNCHANGED loadingFor
            /\ UNCHANGED returned
    /\ UNCHANGED << CLIP_AVAILABLE, failure, _embedder, _instance, _model, _device,
                    embedder, calls, loadsCompleted, notLoadVars >>

(* extract_embedding, lines 74-98: decode, preprocess, move the inputs to
   self._device, run the model; a vector is returned *)
InferenceSucceeds(t) ==
    /\ tpc[t] = "inference"
    /\ _device[Val(self[t])]
    /\ returned' = [ returned EXCEPT ![t] = "vector" ]
    /\ Goto(t, "idle")
    /\ UNCHANGED << CLIP_AVAILABLE, failure, _embedder, _instance, _model, _device,
                    self, embedder, loadingFor, calls, loadsCompleted, notLoadVars >>

(* extract_embedding, lines 100-101: decoding or inference raises, or
   self._device is not set yet (AttributeError at line 86); RuntimeError,
   which extract_image_embedding (lines 140-142) turns into None *)
InferenceFails(t) ==
    /\ tpc[t] = "inference"
    /\ returned' = [ returned EXCEPT ![t] = extract_image_embedding_except ]
    /\ failure' = [ failure EXCEPT ![t] = "inference" ]
    /\ Goto(t, "idle")
    /\ UNCHANGED << CLIP_AVAILABLE, _embedder, _instance, _model, _device,
                    self, embedder, loadingFor, calls, loadsCompleted, notLoadVars >>

NextLoad ==
    \E t \in Threads :
        \/ ExtractImageEmbedding(t)
        \/ GetEmbedderTest(t)
        \/ NewTest(t)
        \/ NewCreate(t)
        \/ NewReturn(t)
        \/ InitTest(t)
        \/ LoadModelSucceeds(t)
        \/ LoadModelFails(t)
        \/ LoadModelDeviceFails(t)
        \/ LoadModelDevice(t)
        \/ AssignEmbedder(t)
        \/ ReturnEmbedder(t)
        \/ HaveEmbedder(t)
        \/ InferenceSucceeds(t)
        \/ InferenceFails(t)

SpecLoad == InitLoad /\ [][NextLoad]_vars

(***************************************************************************)
(* Claims about the encoder singleton, under SpecLoad                      *)
(***************************************************************************)
InLoadModel(t) == tpc[t] \in { "load_model", "load_device" }

(* C5: under every interleaving of the callers, no two threads execute
   _load_model at the same time, the load of the encoder completes at most
   once, and no caller goes on to use an encoder whose load has not
   completed. *)
C5_SingleLoad ==
    /\ \A t, u \in Threads : (InLoadModel(t) /\ InLoadModel(u)) => t = u
    /\ loadsCompleted <= 1
    /\ \A t \in Threads : tpc[t] = "inference" => _device[Val(self[t])]

CallFailed(t) == tpc[t] = "idle" /\ failure[t] # ""

(* C22: extract_image_embedding never raises: a call in which the encoder
   dependency is missing, the load of the encoder fails, or decoding or
   inference fails returns None, and no step of the call changes anything
   outside the encoder singleton and the call's own locals. *)
C22_ExtractNeverRaises ==
    /\ [](\A t \in Threads :
            /\ returned[t] \in { "", "None", "vector" }
            /\ CallFailed(t) => returned[t] = "None")
    /\ [][notLoadVars' = notLoadVars]_vars

C22_Witness ==
    /\ CallFailed(1) /\ failure[1] = "load" /\ returned[1] = "None"
    /\ CallFailed(2) /\ failure[2] = "inference" /\ returned[2] = "None"

(***************************************************************************)
(* SpecHttp: the server.  POST /api/compare (main.py lines 263-345) runs   *)
(* the workflow of graphs/image_comparison.py under a 60 second deadline;  *)
(* POST /api/sensitivity (main.py lines 384-421) sets the runtime          *)
(* sensitivity.  The compare node awaits the executor, so a sensitivity    *)
(* update or the deadline may come while the comparison is running.        *)
(***************************************************************************)
MethodStrings ==
    { None, Some(""), Some("ssim"), Some("structural"), Some("embeddings"), Some("hybrid") }

RequestSensitivities ==
    { None, Some(0), Some(Frac(1, 20)), Some(Scale), Some(2 * Scale), Some(15 * Scale) }

UpdateSensitivities == { Frac(1, 20), Frac(1, 2), 2 * Scale, 15 * Scale, NaN }

RequestPairs ==
    { [ ssim |-> x, emb1 |-> e, emb2 |-> TRUE, cosine |-> Frac(1, 2) ] :
        x \in { None, Some(Frac(1, 2)) }, e \in BOOLEAN }

(* image1 and image2 say whether the uploaded file has any bytes *)
Requests ==
    [ image1 : BOOLEAN, image2 : BOOLEAN, img : RequestPairs,
      method : MethodStrings, sensitivity : RequestSensitivities ]

(* Python truthiness of an Optional[str] and of an Optional[float] *)
TruthyString(o) == ~IsNone(o) /\ Val(o) # ""
TruthyFloat(o) == ~IsNone(o) /\ Val(o) # 0

HttpResponse(status, success, similarity_score, similarity_percentage, method, error) ==
    [ status |-> status,
      success |-> success,
      similarity_score |-> similarity_score,
      similarity_percentage |-> similarity_percentage,
      method |-> method,
      error |-> error ]

InitHttp ==
    /\ settings \in ServerSettings
    /\ _runtime_sensitivity = None
    /\ sensitivityResponse = None
    /\ hpc = "idle"
    /\ request = None
    /\ state = None
    /\ running = None
    /\ invoked = << >>
    /\ response = None
    /\ abandoned = 0
    /\ ScaleIdle
    /\ CallIdle
    /\ LoadIdle
    /\ WindowIdle
    /\ KieIdle

(* image_comparison.py lines 184-194 *)
initial_state(req) ==
    [ method |-> req.method,
      sensitivity |-> req.sensitivity,
      success |-> FALSE,
      similarity_score |-> None,
      similarity_percentage |-> None,
      method_used |-> None,
      error |-> None ]

(* main.py lines 297-302: if method and method not in [...] *)
method_rejected(method) ==
    TruthyString(method) /\ Val(method) \notin { "ssim", "embeddings", "hybrid" }

(* main.py lines 288-315: the files are read, the method is checked, the
   workflow is started *)
ReceiveCompare ==
    /\ hpc = "idle"
    /\ \E req \in Requests :
         /\ request' = Some(req)
         /\ IF method_rejected(req.method)
            THEN /\ response' = Some(HttpResponse(400, FALSE, None, None, None,
                                         Some("Method must be one of: 'ssim', 'embeddings', or 'hybrid'")))
                 /\ state' = None
                 /\ hpc' = "responded"
            ELSE /\ response' = None
                 /\ state' = Some(initial_state(req))
                 /\ hpc' = "validate"
    /\ UNCHANGED << _runtime_sensitivity, sensitivityResponse, abandoned, running, invoked,
                    notHttpVars >>

(* main.py lines 287-295: reading an uploaded file raises *)
ReadFilesFail ==
    /\ hpc = "idle"
    /\ \E req \in Requests : request' = Some(req)
    /\ response' = Some(HttpResponse(200, FALSE, None, None, None,
                                     Some("Failed to read image files")))
    /\ hpc' = "responded"
    /\ UNCHANGED << _runtime_sensitivity, sensitivityResponse, abandoned, state, running, invoked,
                    notHttpVars >>

(* main.py lines 333-337: the invocation of the workflow raises *)
WorkflowRaises ==
    /\ hpc = "validate"
    /\ response' = Some(HttpResponse(200, FALSE, None, None, None,
                                     Some("Comparison failed")))
    /\ hpc' = "responded"
    /\ UNCHANGED << _runtime_sensitivity, sensitivityResponse, abandoned, request, state, running,
                    invoked, notHttpVars >>

(* a validation that would look at the first image only *)
ValidateImages_first_only ==
    /\ hpc = "validate"
    /\ IF ~Val(request).image1
       THEN /\ state' = Some([ Val(state) EXCEPT !.success = FALSE,
                                                 !.error = Some("First image is required") ])
            /\ hpc' = "finished"
       ELSE /\ state' = state
            /\ hpc' = "compare"
    /\ UNCHANGED << _runtime_sensitivity, sensitivityResponse, abandoned, request, running, invoked,
                    response, notHttpVars >>

(* validate_images, lines 41-57, and should_compare, lines 143-147 *)
ValidateImages ==
    /\ hpc = "validate"
    /\ IF ~Val(request).image1
       THEN /\ state' = Some([ Val(state) EXCEPT !.success = FALSE,
                                                 !.error = Some("First image is required") ])
            /\ hpc' = "finished"
       ELSE IF ~Val(request).image2
       THEN /\ state' = Some([ Val(state) EXCEPT !.success = FALSE,
                                                 !.error = Some("Second image is required") ])
            /\ hpc' = "finished"
       ELSE /\ state' = state
            /\ hpc' = "compare"
    /\ UNCHANGED << _runtime_sensitivity, sensitivityResponse, abandoned, request, running, invoked,
                    response, notHttpVars >>

(* compare, lines 65-67: the method and the sensitivity of the comparison *)
selected_method(st, cfg) ==
    IF TruthyString(st.method) THEN Val(st.method) ELSE cfg.similarity_model

selected_sensitivity_ignores_runtime(st, runtime) ==
    IF TruthyFloat(st.sensitivity) THEN Val(st.sensitivity) ELSE DefaultSensitivity

selected_sensitivity(st, runtime) ==
    IF TruthyFloat(st.sensitivity) THEN Val(st.sensitivity) ELSE similarity_sensitivity(runtime)

(* compare, lines 62-109: the comparison is handed to the executor *)
CompareStart ==
    /\ hpc = "compare"
    /\ running' = Some([ method |-> selected_method(Val(state), settings),
                         sensitivity |-> selected_sensitivity(Val(state), _runtime_sensitivity) ])
    /\ hpc' = "running"
    /\ UNCHANGED << _runtime_sensitivity, sensitivityResponse, abandoned, request, state, invoked,
                    response, notHttpVars >>

(* compare, lines 76-124: the comparator of the method, on the executor *)
run_comparison(job, img, cfg) ==
    IF job.method = "embeddings"
    THEN compare_images_embeddings(img, job.sensitivity, cfg)
    ELSE IF job.method = "hybrid"
    THEN compare_images_hybrid(img, cfg.similarity_embedding_weight,
                               cfg.similarity_ssim_weight, job.sensitivity, cfg)
    ELSE LET r == compare_images(img)
         IN  IF IsNone(r.result.method)
             THEN [ r EXCEPT !.result.method = Some("ssim") ]
             ELSE r

compared_state_fabricated_zero(st, result, method) ==
    [ st EXCEPT !.success = result.success,
                !.similarity_score = result.similarity_score,
                !.similarity_percentage = IF IsNone(result.similarity_percentage)
                                          THEN Some(0)
                                          ELSE result.similarity_percentage,
                !.method_used = IF IsNone(result.method) THEN Some(method) ELSE result.method,
                !.error = result.error ]

(* compare, lines 133-140 *)
compared_state(st, result, method) ==
    [ st EXCEPT !.success = result.success,
                !.similarity_score = result.similarity_score,
                !.similarity_percentage = result.similarity_percentage,
                !.method_used = IF IsNone(result.method) THEN Some(method) ELSE result.method,
                !.error = result.error ]

CompareFinish ==
    /\ hpc = "running"
    /\ abandoned < MaxWorkers
    /\ LET job == Val(running)
           out == run_comparison(job, Val(request).img, settings)
       IN  /\ invoked' = Append(invoked, job)
           /\ state' = Some(compared_state(Val(state), out.result, job.method))
    /\ hpc' = "finished"
    /\ running' = None
    /\ UNCHANGED << _runtime_sensitivity, sensitivityResponse, abandoned, request, response,
                    notHttpVars >>

(* compare, lines 125-131: run_in_executor raises *)
CompareNodeRaises ==
    /\ hpc = "running"
    /\ state' = Some([ Val(state) EXCEPT !.success = FALSE,
                                         !.error = Some("Comparison failed") ])
    /\ hpc' = "finished"
    /\ running' = None
    /\ UNCHANGED << _runtime_sensitivity, sensitivityResponse, abandoned, request, invoked, response,
                    notHttpVars >>

(* main.py lines 305-315: the deadline of wait_for passes and the workflow
   task is cancelled.  A comparison that a worker thread has started cannot
   be cancelled and stays on its thread; one still queued behind the
   comparisons of earlier requests is dropped from the queue. *)
DeadlinePasses ==
    /\ hpc = "running"
    /\ IF abandoned < MaxWorkers
       THEN /\ abandoned' = abandoned + 1
            /\ invoked' = Append(invoked, Val(running))
       ELSE UNCHANGED << abandoned, invoked >>
    /\ hpc' = "fallback"
    /\ running' = None
    /\ UNCHANGED << _runtime_sensitivity, sensitivityResponse, request, state, response,
                    notHttpVars >>

(* a comparison left behind by its request comes to its end on its thread;
   nobody awaits its result *)
LateFinish ==
    /\ hpc # "off"
    /\ abandoned > 0
    /\ abandoned' = abandoned - 1
    /\ UNCHANGED << _runtime_sensitivity, sensitivityResponse, hpc, request, state, running,
                    invoked, response, notHttpVars >>

fallback_comparison_awaits_job(job, img, cfg) == run_comparison(job, img, cfg)

(* main.py lines 318-325: compare_ssim on the images of the request *)
fallback_comparison(job, img, cfg) == compare_images(img)

(* main.py lines 316-345: compare_images runs on the executor, once a worker
   is free, and answers the request *)
TimeoutFallback ==
    /\ hpc = "fallback"
    /\ abandoned < MaxWorkers
    /\ LET job == [ method |-> selected_method(Val(state), settings),
                    sensitivity |-> selected_sensitivity(Val(state), _runtime_sensitivity) ]
           result_obj == fallback_comparison(job, Val(request).img, settings).result
       IN  response' = Some(HttpResponse(200, result_obj.success, result_obj.similarity_score,
                                         result_obj.similarity_percentage, Some("ssim"),
                                         result_obj.error))
    /\ invoked' = Append(invoked, [ method |-> "ssim", sensitivity |-> DefaultSensitivity ])
    /\ hpc' = "responded"
    /\ UNCHANGED << _runtime_sensitivity, sensitivityResponse, abandoned, request, state,
                    running, notHttpVars >>

(* main.py lines 339-345 *)
Respond ==
    /\ hpc = "finished"
    /\ LET st == Val(state)
       IN  response' = Some(HttpResponse(200, st.success, st.similarity_score,
                                         st.similarity_percentage, st.method_used, st.error))
    /\ hpc' = "responded"
    /\ UNCHANGED << _runtime_sensitivity, sensitivityResponse, abandoned, request, state, running,
                    invoked, notHttpVars >>

(* the response is sent; the server waits for the next compare request *)
SendResponse ==
    /\ hpc = "responded"
    /\ hpc' = "idle"
    /\ request' = None
    /\ state' = None
    /\ invoked' = << >>
    /\ response' = None
    /\ UNCHANGED << _runtime_sensitivity, sensitivityResponse, abandoned, running, notHttpVars >>

(* update_sensitivity, main.py lines 384-421, with the setter of config.py
   lines 102-107 *)
UpdateSensitivity ==
    /\ hpc # "off"
    /\ \E v \in UpdateSensitivities :
         IF sensitivity_rejected(v)
         THEN /\ sensitivityResponse' =
                    Some([ requested |-> v,
                           success |-> FALSE,
                           sensitivity |-> similarity_sensitivity(_runtime_sensitivity) ])
              /\ UNCHANGED _runtime_sensitivity
         ELSE /\ _runtime_sensitivity' = Some(v)
              /\ sensitivityResponse' =
                    Some([ requested |-> v, success |-> TRUE, sensitivity |-> v ])
    /\ UNCHANGED << hpc, request, state, running, invoked, response, abandoned,
                    notHttpVars >>

NextHttp ==
    \/ ReceiveCompare
    \/ ReadFilesFail
    \/ WorkflowRaises
    \/ ValidateImages
    \/ CompareStart
    \/ CompareFinish
    \/ CompareNodeRaises
    \/ DeadlinePasses
    \/ LateFinish
    \/ TimeoutFallback
    \/ Respond
    \/ SendResponse
    \/ UpdateSensitivity

SpecHttp == InitHttp /\ [][NextHttp]_vars

(***************************************************************************)
(* Claims about the compare request, under SpecHttp                        *)
(***************************************************************************)
OutOfRangeRequest ==
    /\ ~IsNone(request)
    /\ ~IsNone(Val(request).sensitivity)
    /\ ~ValidSensitivity(Val(Val(request).sensitivity))

(* C2: a compare request whose sensitivity is outside [0.1, 10.0] hands no
   comparison to the executor, invokes no comparator and is answered with an
   error, never with a score. *)
C2_OutOfRangeSensitivityRejected ==
    OutOfRangeRequest =>
        /\ IsNone(running)
        /\ invoked = << >>
        /\ hpc = "responded" =>
             /\ ~Val(response).success
             /\ ~IsNone(Val(response).error)

(* the comparison of the request is on the executor *)
ComparisonRunning == hpc = "running" /\ ~IsNone(running)

(* C12: the comparison handed to the executor uses the method of the request
   when the request gives one and the configured default method otherwise,
   and the sensitivity of the request when the request gives one and the
   configured sensitivity otherwise. *)
C12_PerCallValuesTakePrecedence ==
    ComparisonRunning =>
        LET req == Val(request)
            job == Val(running)
        IN  /\ job.method = IF IsNone(req.method)
                            THEN settings.similarity_model
                            ELSE Val(req.method)
            /\ job.sensitivity = IF IsNone(req.sensitivity)
                                 THEN similarity_sensitivity(_runtime_sensitivity)
                                 ELSE Val(req.sensitivity)

MethodNames == { "ssim", "structural", "embeddings", "hybrid" }

(* the comparator a method name stands for *)
ComparatorOf(m) ==
    CASE m = "embeddings" -> "compare_images_embeddings"
      [] m = "hybrid" -> "compare_images_hybrid"
      [] m \in { "ssim", "structural" } -> "compare_images"
      [] OTHER -> "none"

(* C13: a compare request that gives one of the method names ssim,
   structural, embeddings, hybrid is not answered with a validation error and
   its comparison runs on the comparator of that name; a request that gives
   any other method string is answered with an error, no comparison is
   started for it and no comparator is invoked. *)
C13_MethodNamesValidated ==
    ( ~IsNone(request) /\ ~IsNone(Val(request).method) ) =>
        LET m == Val(Val(request).method)
        IN  IF m \in MethodNames
            THEN /\ hpc = "responded" => Val(response).status # 400
                 /\ ComparisonRunning =>
                       run_comparison(Val(running), Val(request).img, settings).trace[1]
                           = ComparatorOf(m)
            ELSE /\ IsNone(running)
                 /\ invoked = << >>
                 /\ hpc = "responded" => /\ ~Val(response).success
                                         /\ ~IsNone(Val(response).error)

Responded == hpc = "responded" /\ ~IsNone(response)

(* C14: every response to a compare request carries a percentage when it
   reports success, and an error and no percentage (null, not 0) when it
   reports failure, whichever way the request went: unread files, rejected
   method, missing image, failed comparator, exception in the compare node or
   in the workflow, deadline fallback. *)
C14_ResponseShape ==
    Responded =>
        LET r == Val(response)
        IN  /\ r.success => ~IsNone(r.similarity_percentage)
            /\ ~r.success => /\ ~IsNone(r.error)
                             /\ IsNone(r.similarity_percentage)

(* the comparator ran and failed: the response of the workflow is a failure
   without a percentage *)
C14_Witness ==
    /\ Responded
    /\ Len(invoked) = 1
    /\ ~Val(response).success
    /\ Val(response).error = Some("Image comparison failed")
    /\ IsNone(Val(response).similarity_percentage)
(* the response in hand answers a request whose workflow reached the
   deadline: the workflow state is still the initial one and the fallback
   comparator was invoked *)
AnsweredByFallback ==
    /\ Responded
    /\ ~IsNone(state)
    /\ Val(state) = initial_state(Val(request))
    /\ invoked # << >>

(* what the structural comparator returns for the images of the request *)
StructuralResult == compare_images(Val(request).img).result

(* C15: a request whose workflow reached the deadline is answered with the
   result of the structural comparator on its two images and method "ssim";
   at the deadline a comparison that has started stays on the executor, and
   when such a comparison ends later the request, the workflow state and the
   response are left as they are. *)
C15_DeadlineFallsBackToStructural ==
    /\ [](AnsweredByFallback =>
            Val(response) = HttpResponse(200, StructuralResult.success,
                                         StructuralResult.similarity_score,
                                         StructuralResult.similarity_percentage,
                                         Some("ssim"), StructuralResult.error))
    /\ [][ /\ ( hpc = "running" /\ hpc' = "fallback" /\ abandoned < MaxWorkers )
               => abandoned' = abandoned + 1
           /\ abandoned' < abandoned
               => /\ response' = response
                  /\ state' = state
                  /\ request' = request
                  /\ hpc' = hpc ]_vars

(* a hybrid comparison with both embeddings reached the deadline, the request
   was answered by the structural comparator and the comparison left behind
   has ended since *)
C15_Witness ==
    /\ AnsweredByFallback
    /\ Len(invoked) = 2
    /\ invoked[1].method = "hybrid"
    /\ Val(request).img.emb1
    /\ Val(response).success
    /\ Val(response).method = Some("ssim")
    /\ abandoned = 0
(* v is a number of the interval [0.1, 10.0] *)
SensitivityInRange(v) == v # NaN /\ v >= MinSensitivity /\ v <= MaxSensitivity

(* C16: the runtime sensitivity is unset or a number in [0.1, 10.0]; the
   answer to a set request with a value outside that range reports failure
   and the sensitivity in force; the stored value changes only to the value
   of a set request that is in the range. *)
C16_RuntimeSensitivityInRange ==
    /\ [](/\ IsNone(_runtime_sensitivity) \/ SensitivityInRange(Val(_runtime_sensitivity))
          /\ ( /\ ~IsNone(sensitivityResponse)
               /\ ~SensitivityInRange(Val(sensitivityResponse).requested) )
             => /\ ~Val(sensitivityResponse).success
                /\ Val(sensitivityResponse).sensitivity
                      = similarity_sensitivity(_runtime_sensitivity))
    /\ [][ _runtime_sensitivity' # _runtime_sensitivity
             => /\ SensitivityInRange(Val(_runtime_sensitivity'))
                /\ Val(sensitivityResponse').requested = Val(_runtime_sensitivity') ]_vars

(* C17: for a request without a sensitivity of its own, the comparison
   handed to the executor when the compare step starts carries the
   sensitivity the configuration exposes at that moment; while the comparison
   runs, sensitivity updates leave it as it is; and the result written at its
   end is the one computed with the sensitivity it was started with. *)
C17_SensitivityReadAtCompareStart ==
    /\ [][ ( hpc = "compare" /\ hpc' = "running" /\ IsNone(Val(request).sensitivity) )
             => Val(running').sensitivity = similarity_sensitivity(_runtime_sensitivity) ]_vars
    /\ [][ ( hpc = "running" /\ hpc' = "running" ) => running' = running ]_vars
    /\ [][ ( hpc = "running" /\ hpc' = "finished" /\ invoked' # invoked )
             => LET out == run_comparison(Val(running), Val(request).img, settings).result
                IN  /\ invoked' = Append(invoked, Val(running))
                    /\ Val(state').similarity_percentage = out.similarity_percentage
                    /\ Val(state').success = out.success ]_vars

(* a hybrid comparison started under the runtime sensitivity 2.0 has ended
   after the runtime sensitivity was set to 0.5; its percentage is the one
   for 2.0, which differs from the one for 0.5 *)
C17_Witness ==
    /\ hpc = "finished"
    /\ IsNone(Val(request).sensitivity)
    /\ Len(invoked) = 1
    /\ invoked[1].method = "hybrid"
    /\ invoked[1].sensitivity = 2 * Scale
    /\ _runtime_sensitivity = Some(Frac(1, 2))
    /\ Val(state).success
    /\ Val(state).method_used = Some("hybrid")
    /\ Val(state).similarity_percentage
         # compare_images_hybrid(Val(request).img, settings.similarity_embedding_weight,
                                 settings.similarity_ssim_weight, Frac(1, 2),
                                 settings).result.similarity_percentage

ImageMissing == ~IsNone(request) /\ (~Val(request).image1 \/ ~Val(request).image2)

MissingImageError ==
    IF ~Val(request).image1 THEN "First image is required" ELSE "Second image is required"

(* C27: the compare step of the workflow is entered only for a request with
   both images; for a request whose first or second image is missing or empty
   no comparator is invoked and the workflow ends in a state with
   success=false, the error naming the missing image, and no score, percentage
   or method. *)
C27_CompareOnlyAfterValidation ==
    /\ hpc \in { "compare", "running", "fallback" } => ~ImageMissing
    /\ ImageMissing => (invoked = << >> /\ IsNone(running))
    /\ (ImageMissing /\ hpc = "finished") =>
          /\ ~Val(state).success
          /\ Val(state).error = Some(MissingImageError)
          /\ IsNone(Val(state).similarity_score)
          /\ IsNone(Val(state).similarity_percentage)
          /\ IsNone(Val(state).method_used)

C27_Witness ==
    /\ hpc = "finished"
    /\ Val(request).image1
    /\ ~Val(request).image2
    /\ Val(request).method = Some("hybrid")
    /\ Val(state).error = Some("Second image is required")
    /\ invoked = << >>

(***************************************************************************)
(* SpecKie: one call of KieClient.generate_image (kie_client.py lines      *)
(* 177-263) against the task service.  Times are whole seconds.  What the  *)
(* service answers to createTask, to each recordInfo query and to the      *)
(* download is chosen by the service; every request of the client ends,    *)
(* with an answer or with the exception of its 120 second timeout (line    *)
(* 33).  An error text is kept as its parts, so that the test of line 256, *)
(* "Processing" not in result.error, can be made on it.                    *)
(***************************************************************************)
MaxWait == 7
MaxPoll == 3

(* the arguments: whether the client has an api key, max_wait_seconds and
   poll_interval, positive as at the only call (image_generation.py line 66,
   which leaves them at 120 and 3.0) *)
KieArgs ==
    [ api_key : BOOLEAN, max_wait_seconds : 1..MaxWait, poll_interval : 1..MaxPoll ]

(* lines 10-20 *)
GenerationResult(success, image_url, task, st, error, image_data) ==
    [ success |-> success,
      image_url |-> image_url,
      task_id |-> task,
      state |-> st,
      error |-> error,
      image_data |-> image_data ]

(* what the service says of a task (lines 134, 141) and the messages it
   sends with a refusal (lines 107, 168) or the client raises (lines 111,
   175) *)
TaskStates == { "success", "fail", "pending", "processing", "queued" }
ErrorMessages == { "Unknown error", "Processing queue is full" }

(* the texts that have the word Processing in them *)
MentionsProcessing(part) == part \in { "Processing (state: ", "Processing queue is full" }

(* line 256: "Processing" not in result.error *)
processing_in_error(error) == \E i \in 1..Len(error) : MentionsProcessing(error[i])

(* create_task, lines 91-111: the answers to POST /jobs/createTask *)
CreateReplies ==
    { GenerationResult(TRUE, None, Some("task-1"), Some("created"), None, FALSE),
      GenerationResult(TRUE, None, None, Some("created"), None, FALSE) }
    \cup { GenerationResult(FALSE, None, None, None, Some(<< m >>), FALSE) :
             m \in ErrorMessages }
    \cup { GenerationResult(FALSE, None, None, None, Some(<< "Request failed: ", m >>), FALSE) :
             m \in ErrorMessages }

(* the answers to GET /jobs/recordInfo: the state of the task with or
   without result urls, a refusal, or an exception of the request *)
QueryAnswers ==
    [ kind : { "record" }, state : TaskStates, urls : BOOLEAN, message : { "" } ]
    \cup [ kind : { "refused", "raised" }, state : { "" }, urls : { FALSE },
           message : ErrorMessages ]

(* query_task, lines 123-175 *)
query_task(task, answer) ==
    IF answer.kind = "record"
    THEN IF answer.state = "success"
         THEN GenerationResult(TRUE, IF answer.urls THEN Some("url-1") ELSE None,
                               Some(task), Some(answer.state), None, FALSE)
         ELSE IF answer.state = "fail"
         THEN GenerationResult(FALSE, None, Some(task), Some(answer.state),
                               Some(<< "Task failed" >>), FALSE)
         ELSE GenerationResult(FALSE, None, Some(task), Some(answer.state),
                               Some(<< "Processing (state: ", answer.state >>), FALSE)
    ELSE IF answer.kind = "refused"
    THEN GenerationResult(FALSE, None, None, None,
                          Some(<< "Query error: ", answer.message >>), FALSE)
    ELSE GenerationResult(FALSE, None, None, None,
                          Some(<< "Query failed: ", answer.message >>), FALSE)

(* lines 259-263 *)
timeout_result(task) ==
    GenerationResult(FALSE, None, Some(task), None,
                     Some(<< "Timeout after ", "s - task may still be processing. Task ID: ", task >>),
                     FALSE)

InitKie ==
    /\ kpc = "call"
    /\ kargs \in { Some(a) : a \in KieArgs }
    /\ task_id = None
    /\ elapsed = 0
    /\ generation = None
    /\ queries = 0
    /\ settings = DefaultSettings
    /\ ScaleIdle
    /\ CallIdle
    /\ LoadIdle
    /\ HttpIdle
    /\ WindowIdle

KieReturn(r) ==
    /\ generation' = Some(r)
    /\ kpc' = "returned"

(* lines 202-206 *)
CheckApiKey ==
    /\ kpc = "call"
    /\ IF ~Val(kargs).api_key
       THEN KieReturn(GenerationResult(FALSE, None, None, None,
                                       Some(<< "API key not configured" >>), FALSE))
       ELSE /\ kpc' = "create"
            /\ UNCHANGED generation
    /\ UNCHANGED << kargs, task_id, elapsed, queries, notKieVars >>

(* lines 209-222 *)
CreateTask ==
    /\ kpc = "create"
    /\ \E r \in CreateReplies :
         IF ~r.success \/ IsNone(r.task_id)
         THEN /\ KieReturn(r)
              /\ UNCHANGED << task_id, elapsed >>
         ELSE /\ generation' = Some(r)
              /\ task_id' = r.task_id
              /\ elapsed' = 0
              /\ kpc' = "while"
    /\ UNCHANGED << kargs, queries, notKieVars >>

(* line 224, and lines 259-263 when the loop is left *)
WhileTest ==
    /\ kpc = "while"
    /\ IF elapsed < Val(kargs).max_wait_seconds
       THEN /\ kpc' = "sleep"
            /\ UNCHANGED generation
       ELSE KieReturn(timeout_result(Val(task_id)))
    /\ UNCHANGED << kargs, task_id, elapsed, queries, notKieVars >>

(* lines 225-228 *)
SleepAndQuery ==
    /\ kpc = "sleep"
    /\ elapsed' = elapsed + Val(kargs).poll_interval
    /\ queries' = queries + 1
    /\ \E answer \in QueryAnswers :
         generation' = Some(query_task(Val(task_id), answer))
    /\ kpc' = "queried"
    /\ UNCHANGED << kargs, task_id, notKieVars >>

(* lines 230-257: whether the call returns after this answer; if not, the
   loop goes on, by the continue of line 253 or by reaching its end *)
returns_after_query(r) ==
    \/ r.success
    \/ /\ ~IsNone(r.state)
       /\ Val(r.state) \notin { "pending", "processing", "created" }
       /\ r.state = Some("fail")
    \/ /\ r.state \notin { Some("pending"), Some("processing") }
       /\ ~IsNone(r.error)
       /\ ~processing_in_error(Val(r.error))

AfterQuery ==
    /\ kpc = "queried"
    /\ LET r == Val(generation) IN
         IF returns_after_query(r)
         THEN IF r.success /\ ~IsNone(r.image_url)
              THEN kpc' = "download"
              ELSE kpc' = "returned"
         ELSE kpc' = "while"
    /\ UNCHANGED << kargs, task_id, elapsed, generation, queries, notKieVars >>

(* lines 232-244: the image is fetched; with status 200 its bytes are kept,
   otherwise, or when the request raises, the result stays as it is *)
Download ==
    /\ kpc = "download"
    /\ \E fetched \in BOOLEAN :
         generation' = Some([ Val(generation) EXCEPT !.image_data = fetched ])
    /\ kpc' = "returned"
    /\ UNCHANGED << kargs, task_id, elapsed, queries, notKieVars >>

NextKie ==
    \/ CheckApiKey
    \/ CreateTask
    \/ WhileTest
    \/ SleepAndQuery
    \/ AfterQuery
    \/ Download

(* every step is a test or an awaited request that ends (sleep, an http
   request under the client's timeout), so the call is never stuck before
   its return *)
SpecKie == InitKie /\ [][NextKie]_vars /\ WF_vars(NextKie)

(***************************************************************************)
(* Claims about generate_image, under SpecKie                              *)
(***************************************************************************)
CeilDiv(a, b) == (a + b - 1) \div b

Queried == kpc = "queried"
LastAnswer == Val(generation)
QueryError == IsNone(LastAnswer.state) /\ ~LastAnswer.success
StillWorking == LastAnswer.state \in { Some("pending"), Some("processing") }

GenerateImageTerminates == <>(kpc = "returned")

QueriesBounded ==
    ~IsNone(kargs) =>
        queries <= CeilDiv(Val(kargs).max_wait_seconds, Val(kargs).poll_interval)

ReturnsAtFirstFinalAnswer ==
    [][ ( Queried /\ ( \/ LastAnswer.success
                       \/ LastAnswer.state = Some("fail")
                       \/ QueryError ) )
          => kpc' \in { "download", "returned" } ]_vars

KeepsPollingWhileWorking ==
    [][ ( Queried /\ StillWorking ) => kpc' = "while" ]_vars

TimeoutWhenLoopEnds ==
    [][ ( kpc = "while" /\ kpc' = "returned" )
          => /\ elapsed >= Val(kargs).max_wait_seconds
             /\ generation' = Some(timeout_result(Val(task_id)))
             /\ ~Val(generation').success
             /\ Val(generation').task_id = task_id ]_vars

(* C28: generate_image always returns; after the task was created it calls
   query_task at most ceil(max_wait_seconds / poll_interval) times; it
   returns at the first query that reports success, the state fail or a
   query error; it keeps polling while the task is pending or processing;
   and when the loop ends it returns a failed result with the task id and
   the timeout error. *)
C28_GenerateImageTerminates ==
    /\ GenerateImageTerminates
    /\ []QueriesBounded
    /\ ReturnsAtFirstFinalAnswer
    /\ KeepsPollingWhileWorking
    /\ TimeoutWhenLoopEnds

(***************************************************************************)
(* Spec: one call of a comparison entry point on a pair of images, under   *)
(* the settings of the process.                                            *)
(***************************************************************************)
Init ==
    /\ settings \in Settings
    /\ callPc = "call"
    /\ callArgs \in { Some(a) : a \in CallArgs }
    /\ callOut = None
    /\ ScaleIdle
    /\ LoadIdle
    /\ HttpIdle
    /\ WindowIdle
    /\ KieIdle

(* a call that would keep the sensitivity it was given as the runtime one *)
Finish_storing_sensitivity(outcome) ==
    /\ callOut' = Some(outcome)
    /\ callPc' = IF outcome.raised THEN "raised" ELSE "returned"
    /\ _runtime_sensitivity' = Some(Val(callArgs).sensitivity)
    /\ UNCHANGED << settings, callArgs, scaleVars, loadVars, windowVars, kieVars,
                    sensitivityResponse, hpc, request, state, running, invoked,
                    response, abandoned >>

(* the entry points read settings (comparison.py lines 211-213, 309-311) and
   write nothing but their own result *)
Finish(outcome) ==
    /\ callOut' = Some(outcome)
    /\ callPc' = IF outcome.raised THEN "raised" ELSE "returned"
    /\ UNCHANGED << settings, callArgs, notCallVars >>

CallCompareImages ==
    /\ callPc = "call"
    /\ Val(callArgs).fn = "compare_images"
    /\ Finish(compare_images(Val(callArgs).img))

CallCompareImagesEmbeddings ==
    /\ callPc = "call"
    /\ Val(callArgs).fn = "compare_images_embeddings"
    /\ Finish(compare_images_embeddings(Val(callArgs).img, Val(callArgs).sensitivity, settings))

CallCompareImagesHybrid ==
    /\ callPc = "call"
    /\ Val(callArgs).fn = "compare_images_hybrid"
    /\ Finish(compare_images_hybrid(Val(callArgs).img, Val(callArgs).weights[1],
                                    Val(callArgs).weights[2], Val(callArgs).sensitivity,
                                    settings))

Next ==
    \/ CallCompareImages
    \/ CallCompareImagesEmbeddings
    \/ CallCompareImagesHybrid

Spec == Init /\ [][Next]_vars

(***************************************************************************)
(* Claims about the three entry points, under Spec                         *)
(***************************************************************************)
CallReturned == callPc = "returned"
Args == Val(callArgs)
Result == Val(callOut).result
Trace == Val(callOut).trace
EmbeddingsMissing == ~Args.img.emb1 \/ ~Args.img.emb2
StructuralFails == IsNone(Args.img.ssim)

SuccessShape(r) ==
    /\ r.success
    /\ ~IsNone(r.similarity_score)
    /\ ~IsNone(r.similarity_percentage)
    /\ IsNone(r.error)

FailureShape(r) ==
    /\ ~r.success
    /\ ~IsNone(r.error)
    /\ IsNone(r.similarity_score)
    /\ IsNone(r.similarity_percentage)

(* C1: every ComparisonResult returned by one of the three entry points is
   either a success with score and percentage and without error, or a failure
   with an error and without score and percentage, whatever fallback path
   produced it. *)
C1_ResultShape ==
    CallReturned => (SuccessShape(Result) \/ FailureShape(Result))

(* the hybrid call whose structural comparison fails, falls back to the
   embedding comparison, which falls back to the structural one, and fails *)
C1_Witness ==
    /\ CallReturned
    /\ Args.fn = "compare_images_hybrid"
    /\ Trace = << "compare_images_hybrid", "compare_images", "compare_images_embeddings",
                  "extract_image_embedding", "extract_image_embedding", "compare_images" >>
    /\ FailureShape(Result)

(* what the try block of the called entry point does with the arguments *)
TryOutcome ==
    CASE Args.fn = "compare_images" -> compare_images_try(Args.img)
      [] Args.fn = "compare_images_embeddings" ->
            compare_images_embeddings_try(Args.img, Args.sensitivity, settings)
      [] Args.fn = "compare_images_hybrid" ->
            compare_images_hybrid_try(Args.img, Args.weights[1], Args.weights[2],
                                      Args.sensitivity, settings)

(* C6: no call of an entry point ends with an exception leaving it; when its
   try block raises (a decode or ssim error, a division by zero for
   sensitivity 0) the call returns success=false with a non-empty error. *)
C6_NoExceptionEscapes ==
    /\ callPc # "raised"
    /\ CallReturned =>
         /\ ~Val(callOut).raised
         /\ TryOutcome.raised =>
              /\ ~Result.success
              /\ ~IsNone(Result.error)
              /\ Val(Result.error) # ""

(* the hybrid call with sensitivity 0 that reaches the calibration: both the
   structural score and the embeddings were obtained, the division raises *)
C6_Witness ==
    /\ CallReturned
    /\ Args.fn = "compare_images_hybrid"
    /\ Args.sensitivity = 0
    /\ ~StructuralFails
    /\ ~EmbeddingsMissing
    /\ Result = Failure("Hybrid comparison failed")

(* C7: when an embedding is None, compare_images_embeddings returns the
   result of compare_images on the pair: its method is never "embeddings", it
   is "ssim" whenever the structural comparison succeeds, and the call fails
   only if the structural comparison fails. *)
C7_EmbeddingFallsBackToStructural ==
    ( /\ CallReturned
      /\ Args.fn = "compare_images_embeddings"
      /\ EmbeddingsMissing )
    => /\ Result = compare_images(Args.img).result
       /\ Result.method # Some("embeddings")
       /\ ~StructuralFails => (Result.success /\ Result.method = Some("ssim"))
       /\ ~Result.success => StructuralFails

C7_Witness ==
    /\ CallReturned
    /\ Args.fn = "compare_images_embeddings"
    /\ ~Args.img.emb1
    /\ Args.img.emb2
    /\ Result.success
    /\ Result.method = Some("ssim")

(* C8: compare_images_hybrid returns the result of compare_images_embeddings
   when the structural comparison fails, the structural result with method
   "ssim" when it succeeds and an embedding is None, and a result with method
   "hybrid" only when the structural score and both embeddings were obtained. *)
C8_HybridFallbackOrder ==
    ( /\ CallReturned
      /\ Args.fn = "compare_images_hybrid" )
    => /\ StructuralFails =>
            /\ Result = compare_images_embeddings(Args.img, Args.sensitivity, settings).result
            /\ SubSeq(Trace, 1, 3) = << "compare_images_hybrid", "compare_images",
                                        "compare_images_embeddings" >>
       /\ (~StructuralFails /\ EmbeddingsMissing) =>
            /\ Result = compare_images(Args.img).result
            /\ Result.method = Some("ssim")
       /\ Result.method = Some("hybrid") => (~StructuralFails /\ ~EmbeddingsMissing)
       /\ (~StructuralFails /\ ~EmbeddingsMissing /\ Result.success) =>
            Result.method = Some("hybrid")

(* the structural comparison fails and the embedding comparison answers *)
C8_Witness ==
    /\ CallReturned
    /\ Args.fn = "compare_images_hybrid"
    /\ StructuralFails
    /\ ~EmbeddingsMissing
    /\ Result.success
    /\ Result.method = Some("embeddings")

(* C9: the similarity_percentage of every successful result lies in
   [0, 100], for every sensitivity, weight pair and setting of the non-linear
   flag. *)
C9_PercentageInRange ==
    (CallReturned /\ Result.success) =>
        /\ Val(Result.similarity_percentage) >= 0
        /\ Val(Result.similarity_percentage) <= 100 * Scale

(* the legacy adjustment of the hybrid score with a negative sensitivity:
   combined_score ** (1 / sensitivity) exceeds 1 and the percentage is cut
   to 100 *)
C9_Witness ==
    /\ CallReturned
    /\ Args.fn = "compare_images_hybrid"
    /\ ~settings.use_nonlinear
    /\ Args.sensitivity < 0
    /\ Result.method = Some("hybrid")
    /\ Val(Result.similarity_score) < Scale
    /\ Val(Result.similarity_percentage) = 100 * Scale

(* the hybrid comparison has the structural score and both embeddings *)
HybridCombines ==
    /\ Args.fn = "compare_images_hybrid"
    /\ ~StructuralFails
    /\ ~EmbeddingsMissing

(* the weights the hybrid comparison is to work with: the given ones divided
   by their sum, or 0.7 and 0.3 *)
ExpectedWeights ==
    LET e == Args.weights[1]
        s == Args.weights[2]
    IN  IF e + s > 0
        THEN << (e * Scale) \div (e + s), (s * Scale) \div (e + s) >>
        ELSE << (7 * Scale) \div 10, (3 * Scale) \div 10 >>

(* the combined score under the expected weights, cut to [0, 1] *)
ExpectedCombined ==
    LET ssim01 == (Val(Args.img.ssim) + Scale) \div 2
        cos01 == Max(0, Min(Scale, Args.img.cosine))
        c == ((ssim01 * ExpectedWeights[2]) \div Scale)
             + ((cos01 * ExpectedWeights[1]) \div Scale)
    IN  Max(0, Min(Scale, c))

(* C18: a hybrid comparison that has the structural score and both
   embeddings works with weights that sum to 1, the given weights divided by
   their sum when the sum is positive and 0.7 / 0.3 otherwise; it returns
   (it does not raise), and it succeeds with the score combined under these
   weights unless the sensitivity is 0. *)
C18_WeightsNormalized ==
    ( callPc \in { "returned", "raised" } /\ HybridCombines ) =>
        /\ callPc = "returned"
        /\ ExpectedWeights[1] + ExpectedWeights[2] = Scale
        /\ Args.sensitivity # 0 =>
              /\ Result.success
              /\ Result.method = Some("hybrid")
              /\ Result.similarity_score = Some(ExpectedCombined)

(* the weights 1.5 and 3.5 are used as 0.3 and 0.7 *)
C18_Witness ==
    /\ CallReturned
    /\ HybridCombines
    /\ Args.weights = << Frac(15, 10), Frac(35, 10) >>
    /\ Args.img.ssim = Some(Scale)
    /\ Args.img.cosine = 0
    /\ Result.success
    /\ Result.similarity_score = Some(Frac(7, 10))

(* what compare_images_embeddings returns for the images and the sensitivity
   of the call *)
EmbeddingsResult ==
    compare_images_embeddings(Args.img, Args.sensitivity, settings).result

(* C19: a hybrid comparison with embedding_weight 1 and ssim_weight 0 that
   has the structural score and both embeddings returns the similarity_score
   that compare_images_embeddings returns for the same images, whatever the
   structural score is. *)
C19_EmbeddingOnlyWeightsGiveEmbeddingScore ==
    ( callPc \in { "returned", "raised" }
      /\ HybridCombines
      /\ Args.weights = << Scale, 0 >> )
    => /\ callPc = "returned"
       /\ Result.similarity_score = EmbeddingsResult.similarity_score

(* the call is answered by the structural comparison: it is a call of
   compare_images, or a call of one of the other two without an embedding *)
StructuralAnswer ==
    /\ CallReturned
    /\ Args.fn = "compare_images" \/ EmbeddingsMissing

(* the same call on the same images under another sensitivity and other
   settings *)
SameCallUnder(sensitivity, cfg) ==
    CASE Args.fn = "compare_images" -> compare_images(Args.img)
      [] Args.fn = "compare_images_embeddings" ->
            compare_images_embeddings(Args.img, sensitivity, cfg)
      [] Args.fn = "compare_images_hybrid" ->
            compare_images_hybrid(Args.img, Args.weights[1], Args.weights[2],
                                  sensitivity, cfg)

(* C20: a call answered by the structural comparison, directly or through
   the embedding or hybrid fallback, returns the same success, score and
   percentage as the same call on the same images under any other
   sensitivity, threshold pair and non-linear flag. *)
C20_StructuralIgnoresCalibration ==
    StructuralAnswer =>
        \A s2 \in Sensitivities, cfg2 \in Settings :
            LET other == SameCallUnder(s2, cfg2).result
            IN  /\ other.success = Result.success
                /\ other.similarity_score = Result.similarity_score
                /\ other.similarity_percentage = Result.similarity_percentage

(* a hybrid call with the sensitivity 5.0 and the non-linear flag on, without
   embeddings: the structural result is returned as it is *)
C20_Witness ==
    /\ StructuralAnswer
    /\ Args.fn = "compare_images_hybrid"
    /\ Args.sensitivity = 5 * Scale
    /\ settings.use_nonlinear
    /\ Result.success
    /\ Result.method = Some("ssim")
    /\ Result.similarity_percentage = compare_images(Args.img).result.similarity_percentage

CallEnds == callPc = "call" /\ callPc' # "call"

(* what the called entry point computes from its arguments and the settings *)
EntryPointOutcome ==
    CASE Args.fn = "compare_images" -> compare_images(Args.img)
      [] Args.fn = "compare_images_embeddings" ->
            compare_images_embeddings(Args.img, Args.sensitivity, settings)
      [] Args.fn = "compare_images_hybrid" ->
            compare_images_hybrid(Args.img, Args.weights[1], Args.weights[2],
                                  Args.sensitivity, settings)

(* C23: a call of an entry point leaves the runtime sensitivity, the
   configured thresholds and weights, and the rest of the server's state as
   they were, and its own arguments too; what it returns is determined by its
   arguments and the settings, so it is the same whichever calls ran before. *)
C23_CallsLeaveSharedStateAlone ==
    /\ [][CallEnds => /\ settings' = settings
                      /\ _runtime_sensitivity' = _runtime_sensitivity
                      /\ httpVars' = httpVars
                      /\ callArgs' = callArgs]_vars
    /\ [](callPc # "call" => Val(callOut) = EntryPointOutcome)

C23_Witness ==
    /\ CallReturned
    /\ Args.fn = "compare_images_hybrid"
    /\ Args.sensitivity = 2 * Scale
    /\ Result.success
    /\ Result.method = Some("hybrid")
    /\ IsNone(_runtime_sensitivity)
    /\ settings = DefaultSettings

EmbeddingsSucceeded ==
    /\ CallReturned
    /\ Args.fn = "compare_images_embeddings"
    /\ Result.success
    /\ Result.method = Some("embeddings")

(* the same pair compared under another sensitivity and other settings *)
EmbeddingsResultUnder(sens, cfg) ==
    compare_images_embeddings(Args.img, sens, cfg).result

(* C26: a successful embedding comparison returns as similarity_score the
   cosine similarity of the pair clamped to [0, 1]; every other sensitivity,
   threshold pair and non-linear flag under which the comparison of the same
   pair succeeds gives the same score. *)
C26_ScoreIsRawCosine ==
    EmbeddingsSucceeded =>
        /\ Result.similarity_score = Some(Clamp(Args.img.cosine, 0, Scale))
        /\ \A sens \in Sensitivities, cfg \in Settings :
              LET r == EmbeddingsResultUnder(sens, cfg)
              IN  (r.success /\ r.method = Some("embeddings"))
                      => r.similarity_score = Result.similarity_score

(* cosine 0.5 at sensitivity 2: the score is 0.5, and the percentage is not
   the one the same pair gets at sensitivity 1 *)
C26_Witness ==
    /\ EmbeddingsSucceeded
    /\ Args.img.cosine = Frac(1, 2)
    /\ Args.sensitivity = 2 * Scale
    /\ settings = DefaultSettings
    /\ Result.similarity_score = Some(Frac(1, 2))
    /\ Result.similarity_percentage
         # EmbeddingsResultUnder(Scale, settings).similarity_percentage

(* max_threshold * sensitivity >= 1 *)
HighBandClosed ==
    /\ Args.sensitivity # NaN
    /\ Mul(settings.max_threshold, Args.sensitivity) >= Scale

CalibratedResult ==
    /\ CallReturned
    /\ Result.success
    /\ Result.method \in { Some("embeddings"), Some("hybrid") }

(* scaled 0.6 on the -1..1 scale of the return value, and as a percentage *)
ScaledSixTenths == 2 * Frac(6, 10) - Scale
SixtyPercent == 60 * Scale

NoScoreAboveSixTenths(use_nonlinear) ==
    \A r \in RawScores :
        apply_nonlinear_scaling(r, Args.sensitivity, settings.min_threshold,
                                settings.max_threshold, use_nonlinear) <= ScaledSixTenths

(* C29 as stated: whenever max_threshold * sensitivity >= 1 the calibration
   maps no raw score above scaled 0.6, and the percentage of every embeddings
   and hybrid result is at most 60. *)
C29_HighBandUnreachable ==
    ( CallReturned /\ HighBandClosed ) =>
        /\ NoScoreAboveSixTenths(settings.use_nonlinear)
        /\ CalibratedResult => Val(Result.similarity_percentage) <= SixtyPercent

(* C29 amended: with non-linear scaling enabled, whenever
   max_threshold * sensitivity >= 1 the calibration maps no raw score above
   scaled 0.6, and the percentage of every result with method embeddings or
   hybrid is at most 60. *)
C29_HighBandUnreachableWhenNonlinear ==
    ( CallReturned /\ HighBandClosed /\ settings.use_nonlinear ) =>
        /\ NoScoreAboveSixTenths(TRUE)
        /\ CalibratedResult => Val(Result.similarity_percentage) <= SixtyPercent

(* identical images, cosine 1.0, compared by embeddings at sensitivity 2
   under the default settings: 60 percent, to the hundredth of a percent that
   the quotient 0.5 / 0.85 loses at this resolution *)
C29_Witness ==
    /\ CalibratedResult
    /\ HighBandClosed
    /\ settings = DefaultSettings
    /\ Args.fn = "compare_images_embeddings"
    /\ Args.sensitivity = 2 * Scale
    /\ Args.img.cosine = Scale
    /\ Val(Result.similarity_percentage) >= SixtyPercent - Scale \div 100
    /\ Val(Result.similarity_percentage) <= SixtyPercent

(* how many times fn was entered during the call *)
Entered(fn) == Cardinality({ i \in 1..Len(Trace) : Trace[i] = fn })

(* C30: the fallback chain of a call has no cycle.  A call of
   compare_images_hybrid enters the structural comparator at most twice and
   compare_images_embeddings at most once, and never itself again; a call of
   compare_images_embeddings enters the structural comparator at most once
   and never itself or the hybrid comparison; a call of compare_images enters
   nothing else. *)
C30_FallbackChainAcyclic ==
    callPc # "call" =>
        /\ Trace[1] = Args.fn
        /\ Args.fn = "compare_images_hybrid" =>
              /\ Entered("compare_images_hybrid") = 1
              /\ Entered("compare_images") <= 2
              /\ Entered("compare_images_embeddings") <= 1
        /\ Args.fn = "compare_images_embeddings" =>
              /\ Entered("compare_images_embeddings") = 1
              /\ Entered("compare_images") <= 1
              /\ Entered("compare_images_hybrid") = 0
        /\ Args.fn = "compare_images" => Trace = << "compare_images" >>

(* the longest chain: the hybrid call whose structural comparison fails
   hands over to the embedding comparison, which has no embedding for the
   first image and makes the second and last structural comparison, this
   time at sensitivity 5 *)
C30_Witness ==
    /\ CallReturned
    /\ Args.fn = "compare_images_hybrid"
    /\ Args.sensitivity = 5 * Scale
    /\ ~Args.img.emb1
    /\ Entered("compare_images") = 2
    /\ Entered("compare_images_embeddings") = 1
    /\ ~Result.success

====
